---------------------------- MODULE Spec2Model ----------------------------
(***************************************************************************)
(* MeshMaven: a panel of mesh tools for Maya (Scripts/meshmaven_core.py,   *)
(* Scripts/meshmaven_gui.py) and its installer                             *)
(* (drag_and_drop_installer.py).                                           *)
(*                                                                         *)
(* The plugin owns no data: every method is a sequence of maya.cmds calls  *)
(* on the host's scene.  The model keeps the host scene (objects with      *)
(* their mesh, pivot, scale and history), the selection list, the host's   *)
(* undo queue and, for the handler that ran last, the list of host         *)
(* commands it dispatched.  A Python exception ends a handler where it is  *)
(* raised; what the host did before it stays done.                         *)
(*                                                                         *)
(* A method's statements are bound one after the other with With, so that  *)
(* each is evaluated once.                                                 *)
(*                                                                         *)
(* The host is the environment.  Its commands are modelled by what the     *)
(* Maya command reference says of them: polyListComponentConversion with   *)
(* an object gives the object's components, polyInfo(edgeToFace) gives     *)
(* the faces on an edge, polySelectConstraint(mode=3, type=8) keeps the    *)
(* matching faces of the selected objects, every command that changes the  *)
(* scene or the selection is one entry of the undo queue.  Where the       *)
(* plugin hands a command None or an empty list, which it never tests,     *)
(* the host's answer is a choice between ending the command in an error    *)
(* (strict) and going on with nothing (lenient).                           *)
(*                                                                         *)
(* Coordinates are integers in units of 1e-05 scene units, so the scale    *)
(* factor 1e-05 of scale_vertices and the merge distance 0.0001 of         *)
(* merge_vertex are exact.                                                 *)
(***************************************************************************)
EXTENDS Integers, Sequences, FiniteSets, TLC

\* ------------------------------------------------------------- bounds
\* Objects in the initial scene.
NObj == 2
\* Longest object selection the user makes.
MaxSel == 2
\* Most edges in an edge selection the user makes.
MaxSelEdges == 2
\* Interactions (selection changes, panel clicks, calls) in one behaviour
\* of Spec, of SpecDup, of SpecBridge and of SpecGeom.
MaxOps == 2
DupOps == 3
BridgeOps == 3
GeomOps == 1
\* Length of the host's undo queue (Maya's undoInfo -length preference).
UndoQueueLen == 18
\* SpecGeom: most edges of an enumerated mesh, most vertices of an
\* enumerated vertex list.
MaxEdges == 2
MaxVerts == 2
\* SpecInstall: runs of the installer in one behaviour.
MaxInstalls == 2

\* ---------------------------------------------------- program constants
\* scale_vertices scales by 1e-05: one scene unit is ScaleDen model units.
ScaleDen == 100000
\* merge_vertex: distance=0.0001, in model units.
MergeTol == 10
\* undo: UNDO_COUNT.
UNDO_COUNT == 9
\* bridge: smoothingAngle.
SmoothingAngle == 30
\* Ui.widgets: div_field.setRange(0, 1000).
DivMin == 0
DivMax == 1000
\* polyBoolOp operation codes of union, difference, intersection.
OpUnion == 1
OpDifference == 2
OpIntersection == 3

Axes == {"X", "Y", "Z"}

\* ------------------------------------------------------------ helpers
\* The value of a function of one argument: With([x \in {e} |-> body]) is
\* body with x standing for the value of e, which is evaluated once.
With(f) == CHOOSE r \in {g[CHOOSE x \in DOMAIN g : TRUE] : g \in {f}} : TRUE

\* A function or sequence given by an expression, tabulated: comparing it
\* evaluates it once, so that reading it later does not evaluate it again.
Table(v) == With([y \in {v} |-> IF y = y THEN y ELSE y])

Range(s) == {s[i] : i \in DOMAIN s}

Abs(n) == IF n < 0 THEN -n ELSE n

Min(S) == CHOOSE m \in S : \A n \in S : m <= n

\* The numbers of S in increasing order.
SortedSeq(S0) ==
    With([S \in {S0} |->
    Table([i \in 1..Cardinality(S) |->
             CHOOSE x \in S : Cardinality({y \in S : y < x}) = i - 1])])

RECURSIVE FlattenFrom(_, _)
FlattenFrom(ss, i) == IF i > Len(ss) THEN <<>> ELSE ss[i] \o FlattenFrom(ss, i + 1)

\* The sequences of ss one after the other.
Flatten(ss0) == With([ss \in {ss0} |-> FlattenFrom(ss, 1)])

\* The sequences of length 0..n over S.
SeqsUpTo(S, n) == UNION {[1..k -> S] : k \in 0..n}

\* Sequences of distinct elements of S, of length 0..n.
DistinctSeqs(S, n) == {s \in SeqsUpTo(S, n) : Cardinality(Range(s)) = Len(s)}

\* A position in scene units.
P(x, y, z) == <<x * ScaleDen, y * ScaleDen, z * ScaleDen>>

\* ---------------------------------------------------- selection items
\* An item of the selection list: an object (a transform), or a component
\* of an object's mesh: "e" edge, "v" vertex, "f" face, with its index.
ObjItem(o) == [o |-> o, k |-> "obj", i |-> 0]
Comp(o, k, i) == [o |-> o, k |-> k, i |-> i]

\* A host command as the log keeps it.
Cmd(c, tgt, num, msg) == [cmd |-> c, tgt |-> tgt, num |-> num, msg |-> msg]

\* ------------------------------------------------------- the host scene
\* An object of the scene: a transform with its mesh.
\*   verts  world positions of the vertices
\*   edges  [a, b, nf]: the end vertices and the number of faces on the edge
\*   faces  [at, sides, concave, holes]: a vertex of the face and its shape
\*   nmv    the non-manifold vertices
\*   piv    scale and rotate pivot
\*   scl    the scale attributes scaleX, scaleY, scaleZ
\*   hist   whether the object has construction history
Object(verts, edges, faces, nmv, piv, scl, hist) ==
    [verts |-> verts, edges |-> edges, faces |-> faces, nmv |-> nmv,
     piv |-> piv, scl |-> scl, hist |-> hist]

Edge(a, b, nf) == [a |-> a, b |-> b, nf |-> nf]
Face(at, sides, concave, holes) ==
    [at |-> at, sides |-> sides, concave |-> concave, holes |-> holes]
Tri(at) == Face(at, 3, FALSE, FALSE)
Quad(at) == Face(at, 4, FALSE, FALSE)
Origin == <<0, 0, 0>>
Unit == <<1, 1, 1>>

\* The host's state as a handler threads it through its calls.
Host(sc, sl, uq, lg, nid) ==
    [scene |-> sc, sel |-> sl, undoq |-> uq, log |-> lg, nextId |-> nid]

\* What a method hands back: the host state it leaves, the exception it
\* raised ("none" when it returned), whether it returned None, and the list
\* it returned.
Ret(h, raised, none, v) == [h |-> h, raised |-> raised, none |-> none, v |-> v]

\* A call that raised ends the method that made it with its exception.
Raised(r) == r.raised # "none"

\* The undo queue with one more entry, the oldest dropped when it is full.
QueuePush(q, e) ==
    IF Len(q) >= UndoQueueLen THEN Append(Tail(q), e) ELSE Append(q, e)

\* An undoable host command: logged, the state before it queued for undo.
HostDo(h, c, sc, sl) ==
    [h EXCEPT !.undoq = QueuePush(h.undoq, [scene |-> h.scene, sel |-> h.sel]),
              !.log = Append(h.log, c), !.scene = Table(sc), !.sel = Table(sl)]

\* A host command that leaves nothing to undo (cmds.warning, ExportSelection).
HostSay(h, c) == [h EXCEPT !.log = Append(h.log, c)]

Warn(h, msg) == HostSay(h, Cmd("warning", <<>>, <<>>, msg))

\* The items of a list, each once, in the order of their first occurrence:
\* the selection list holds an item once.
Distinct(s0) ==
    With([s \in {s0} |->
    With([firsts \in {SortedSeq({i \in 1..Len(s) : \A j \in 1..(i - 1) : s[j] # s[i]})} |->
    Table([k \in 1..Len(firsts) |-> s[firsts[k]]])])])

\* cmds.select(items, replace=True); cmds.select(items); cmds.select(clear=True)
Select(h, items) == HostDo(h, Cmd("select", items, <<>>, ""), h.scene, Distinct(items))

\* cmds.select(items, replace=True) with a list that may be empty: handed
\* an empty list, a strict host ends the command in an error and a lenient
\* one leaves nothing selected.
SelectList(h, items, strict) ==
    IF items = <<>> /\ strict
    THEN Ret(HostSay(h, Cmd("select", items, <<>>, "")), "TypeError", FALSE, <<>>)
    ELSE Ret(Select(h, items), "none", TRUE, <<>>)

\* cmds.undo(): the last queued command is taken back; with nothing queued
\* the host does nothing.
HostUndo(h) ==
    IF h.undoq = <<>> THEN HostSay(h, Cmd("undo", <<>>, <<>>, ""))
    ELSE [h EXCEPT !.undoq = SubSeq(h.undoq, 1, Len(h.undoq) - 1),
                   !.log = Append(h.log, Cmd("undo", <<>>, <<>>, "")),
                   !.scene = h.undoq[Len(h.undoq)].scene,
                   !.sel = h.undoq[Len(h.undoq)].sel]

\* cmds.ls(selection=True, transforms=True): the selected objects.
LsTransforms(h) ==
    With([its \in {SelectSeq(h.sel, LAMBDA it : it.k = "obj" /\ it.o \in DOMAIN h.scene)} |->
    Table([i \in 1..Len(its) |-> its[i].o])])

\* cmds.filterExpand(items, selectionMask=32 | 31): the components of one
\* kind among the items, <<>> standing for None.
FilterExpand(items, k) == SelectSeq(items, LAMBDA it : it.k = k)

ObjItems(objs) == [i \in 1..Len(objs) |-> ObjItem(objs[i])]

\* Every component of kind k of object o, in index order.
AllComps(o, k, n) == [i \in 1..n |-> Comp(o, k, i)]

\* The components of kind k with the indices S of object o, in index order.
CompsOf(o, k, S) ==
    With([is \in {SortedSeq(S)} |-> [i \in 1..Len(is) |-> Comp(o, k, is[i])]])

\* cmds.ls(cmds.polyListComponentConversion(edges, fromEdge=True,
\* toVertex=True), flatten=True): the end vertices of the edges, object by
\* object in index order.
EdgesToVertices(sc, edges) ==
    With([objs \in {SortedSeq({e.o : e \in Range(edges)})} |->
    Table(Flatten([j \in 1..Len(objs) |->
            CompsOf(objs[j], "v",
                    UNION {{sc[e.o].edges[e.i].a, sc[e.o].edges[e.i].b} :
                             e \in {x \in Range(edges) : x.o = objs[j]}})]))])

\* cmds.pointPosition(vertex, world=True)
PointPosition(sc, v) == sc[v.o].verts[v.i]

\* --------------------------------------------------- MeshMavenCore
get_selected_objects(h) ==
    With([objs \in {LsTransforms(h)} |->
    IF objs = <<>>
    THEN Ret(Warn(h, "Please select an object."), "none", TRUE, <<>>)
    ELSE Ret(h, "none", FALSE, objs)])

get_selected_components(h) == h.sel

IsOpenEdge_NotTwo(nf) == nf # 2

\* len(connected_faces) == 1
IsOpenEdge(nf) == nf = 1

get_open_edges(h) ==
    With([g \in {get_selected_objects(h)} |->
    IF g.none THEN Ret(g.h, "TypeError", FALSE, <<>>)
    ELSE Ret(g.h, "none", FALSE,
             Table(SelectSeq(AllComps(g.v[1], "e", Len(h.scene[g.v[1]].edges)),
                             LAMBDA e : IsOpenEdge(h.scene[g.v[1]].edges[e.i].nf))))])

\* The index into vertex_pos that get_vertex_closest_to_axis reads.
MirrorPlane(axis) ==
    CASE axis = "X" -> 1
      [] axis = "Y" -> 2
      [] axis = "Z" -> 0

NoVertex == Comp(0, "v", 0)

\* closest_vertex = None, closest_distance = float('inf')
NoneYet == [none |-> TRUE, v |-> NoVertex, d |-> 0]

Closer_OrEqual(d, best) == best.none \/ d <= best.d

\* axis_distance < closest_distance
Closer(d, best) == best.none \/ d < best.d

\* The loop over the vertices, from vertex i on.
RECURSIVE ClosestFrom(_, _, _, _, _)
ClosestFrom(sc, vs, i, pl, best) ==
    IF i > Len(vs) THEN best
    ELSE With([b \in {IF Closer(Abs(PointPosition(sc, vs[i])[pl + 1]), best)
             THEN [none |-> FALSE, v |-> vs[i],
                   d |-> Abs(PointPosition(sc, vs[i])[pl + 1])]
             ELSE best} |-> ClosestFrom(sc, vs, i + 1, pl, b)])

\* With no edge selected the host is handed an empty list: a strict host
\* ends in an error, a lenient one returns no vertex.
get_vertex_closest_to_axis(h, axis, strict) ==
    With([edges \in {FilterExpand(get_selected_components(h), "e")} |->
    With([vertices \in {EdgesToVertices(h.scene, edges)} |->
    IF vertices = <<>>
    THEN IF strict THEN Ret(h, "RuntimeError", FALSE, <<>>)
         ELSE Ret(Warn(h, "No vertices found"), "none", TRUE, <<>>)
    ELSE With([best \in {ClosestFrom(h.scene, vertices, 1, MirrorPlane(axis), NoneYet)} |->
         Ret(h, "none", best.none, IF best.none THEN <<>> ELSE <<best.v>>)])])])

\* Division rounding toward zero, as the host's floating point scaling of a
\* small offset does.
Trunc(a, d) == IF (a >= 0) = (d > 0) THEN Abs(a) \div Abs(d) ELSE -(Abs(a) \div Abs(d))

\* scale_factor, as the divisors of the three components.
ScaleFactor(axis) ==
    CASE axis = "X" -> <<ScaleDen, 1, 1>>
      [] axis = "Y" -> <<1, ScaleDen, 1>>
      [] axis = "Z" -> <<1, 1, ScaleDen>>

\* cmds.scale(..., relative=True, pivot=vertex_pos) on one point.
ScalePoint(p, den, piv) == [c \in 1..3 |-> piv[c] + Trunc(p[c] - piv[c], den[c])]

\* The scene with the vertices scaled about vertex_pos.
Scaled(sc, vertices, axis, vertex_pos) ==
    [o \in DOMAIN sc |->
       [sc[o] EXCEPT !.verts =
          [i \in 1..Len(sc[o].verts) |->
             IF Comp(o, "v", i) \in Range(vertices)
             THEN ScalePoint(sc[o].verts[i], ScaleFactor(axis), vertex_pos)
             ELSE sc[o].verts[i]]]]

scale_vertices(h, axis, vertex_pos) ==
    With([edges \in {FilterExpand(get_selected_components(h), "e")} |->
    IF edges = <<>> THEN Ret(Warn(h, "Please select edges"), "none", TRUE, <<>>)
    ELSE With([vertices \in {EdgesToVertices(h.scene, edges)} |->
    IF vertices = <<>>
    THEN Ret(Warn(h, "No vertices found in the selected edges."), "none", TRUE, <<>>)
    ELSE With([h1 \in {Select(h, vertices)} |->
         Ret(HostDo(h1, Cmd("scale", vertices, ScaleFactor(axis) \o vertex_pos, ""),
                    Scaled(h1.scene, vertices, axis, vertex_pos), h1.sel),
             "none", TRUE, <<>>)])])])

\* The loop of set_pivot, from object i on.
RECURSIVE MovePivots(_, _, _, _)
MovePivots(h, objs, i, pos) ==
    IF i > Len(objs) THEN h
    ELSE With([h1 \in {HostDo(h, Cmd("move", <<ObjItem(objs[i])>>, pos, ""),
                    [h.scene EXCEPT ![objs[i]].piv = pos], h.sel)} |->
         MovePivots(h1, objs, i + 1, pos)])

set_pivot(h, x, y, z) ==
    With([g \in {get_selected_objects(h)} |->
    IF g.none THEN Ret(g.h, "TypeError", FALSE, <<>>)
    ELSE With([h1 \in {g.h} |->
         Ret(MovePivots(h1, g.v, 1, <<x, y, z>>), "none", TRUE, <<>>)])])

\* The component (0, 1, 2 for X, Y, Z) of the scale attribute set_scale_attr sets.
ScaleAttr(axis) ==
    CASE axis = "X" -> 0
      [] axis = "Y" -> 1
      [] axis = "Z" -> 2

\* The vertices of a mesh after its scale attribute c is set to -1: the
\* object is scaled about its pivot.
Flipped(ob, c) ==
    [i \in 1..Len(ob.verts) |->
       [ob.verts[i] EXCEPT ![c] =
          ob.piv[c] + Trunc(-(ob.verts[i][c] - ob.piv[c]), ob.scl[c])]]

\* cmds.setAttr(obj + ".scaleX", -1)
set_scale_attr(h, obj, axis) ==
    HostDo(h, Cmd("setAttr", <<ObjItem(obj)>>, <<ScaleAttr(axis), -1>>, ""),
           [h.scene EXCEPT ![obj] =
              [h.scene[obj] EXCEPT !.verts = Flipped(h.scene[obj], ScaleAttr(axis) + 1),
                                   !.scl[ScaleAttr(axis) + 1] = -1]],
           h.sel)

\* cmds.duplicate(obj)[0]: a copy under a new name, which becomes the selection.
HostDuplicate(h, obj) ==
    [HostDo(h, Cmd("duplicate", <<ObjItem(obj)>>, <<>>, ""),
            (h.nextId :> h.scene[obj]) @@ h.scene, <<ObjItem(h.nextId)>>)
       EXCEPT !.nextId = h.nextId + 1]

\* The loop of mirror_object, from object i on.
RECURSIVE MirrorEach(_, _, _, _, _)
MirrorEach(h, objs, i, axis, acc) ==
    IF i > Len(objs) THEN Ret(h, "none", FALSE, acc)
    ELSE With([h1 \in {HostDuplicate(h, objs[i])} |->
         With([h2 \in {set_scale_attr(h1, h.nextId, axis)} |->
         With([acc2 \in {Append(acc, h.nextId)} |->
         MirrorEach(h2, objs, i + 1, axis, acc2)])])])

mirror_object(h, axis) ==
    With([g \in {get_selected_objects(h)} |->
    IF g.none THEN Ret(g.h, "TypeError", FALSE, <<>>)
    ELSE With([h1 \in {g.h} |-> MirrorEach(h1, g.v, 1, axis, <<>>)])])

\* A host command handed None for its objects acts on the selection, which
\* holds no object: it is dispatched and changes nothing; a strict host ends
\* it in an error.
DispatchOnNone(h, c, strict) ==
    Ret(HostSay(h, c), IF strict THEN "RuntimeError" ELSE "none", TRUE, <<>>)

\* cmds.makeIdentity(objs, apply=True, translate=True, rotate=True, scale=True)
Frozen(sc, objs) ==
    [o \in DOMAIN sc |-> IF o \in Range(objs) THEN [sc[o] EXCEPT !.scl = Unit] ELSE sc[o]]

freeze_transform(h, strict) ==
    With([g \in {get_selected_objects(h)} |->
    With([h1 \in {g.h} |->
    IF g.none THEN DispatchOnNone(h1, Cmd("makeIdentity", <<>>, <<>>, ""), strict)
    ELSE Ret(HostDo(h1, Cmd("makeIdentity", ObjItems(g.v), <<>>, ""),
                    Frozen(h1.scene, g.v), h1.sel),
             "none", TRUE, <<>>)])])

\* cmds.delete(objs, constructionHistory=True)
NoHistory(sc, objs) ==
    [o \in DOMAIN sc |-> IF o \in Range(objs) THEN [sc[o] EXCEPT !.hist = FALSE] ELSE sc[o]]

delete_history(h, strict) ==
    With([g \in {get_selected_objects(h)} |->
    With([h1 \in {g.h} |->
    IF g.none
    THEN DispatchOnNone(h1, Cmd("delete", <<>>, <<>>, "constructionHistory"), strict)
    ELSE Ret(HostDo(h1, Cmd("delete", ObjItems(g.v), <<>>, "constructionHistory"),
                    NoHistory(h1.scene, g.v), h1.sel),
             "none", TRUE, <<>>)])])

\* cmds.polyInfo(nonManifoldVertices=True)
NonManifoldVertices(sc, objs) ==
    Flatten([j \in 1..Len(objs) |-> CompsOf(objs[j], "v", sc[objs[j]].nmv)])

\* size=3: faces with more than 4 sides
MoreThan4Sides(f) == f.sides > 4
\* convexity=1: concave faces
Concave(f) == f.concave
\* holes=1: faces with holes
Holed(f) == f.holes

\* The constraint a round of get_bad_components sets, by its flag.
Meets(name, f) ==
    CASE name = "size" -> MoreThan4Sides(f)
      [] name = "convexity" -> Concave(f)
      [] name = "holes" -> Holed(f)

\* cmds.polySelectConstraint(mode=3, type=8, ...): the selection becomes
\* the faces of the selected objects that meet the constraint.
FacesWhere(sc, objs, name) ==
    Flatten([j \in 1..Len(objs) |->
               SelectSeq(AllComps(objs[j], "f", Len(sc[objs[j]].faces)),
                         LAMBDA f : Meets(name, sc[objs[j]].faces[f.i]))])

\* One select / constrain / read / disable round of get_bad_components.
ConstraintRound(h, objs, name) ==
    With([h1 \in {Select(h, ObjItems(objs))} |->
    With([found \in {FacesWhere(h1.scene, objs, name)} |->
    With([h2 \in {HostDo(h1, Cmd("polySelectConstraint", <<>>, <<3, 8>>, name),
                          h1.scene, found)} |->
    Ret(HostDo(h2, Cmd("polySelectConstraint", <<>>, <<>>, "disable"), h2.scene, h2.sel),
        "none", FALSE, get_selected_components(h2))])])])

\* The last round: the objects are selected again and their non-manifold
\* vertices are read.
LastRound(h, objs, found) ==
    With([h4 \in {Select(h, ObjItems(objs))} |->
    Ret(h4, "none", FALSE, found \o NonManifoldVertices(h4.scene, objs))])

\* The rounds of get_bad_components, in the order of the code.
BadRounds(h, objs) ==
    With([r1 \in {ConstraintRound(h, objs, "size")} |->
    With([h1 \in {r1.h} |->
    With([r2 \in {ConstraintRound(h1, objs, "convexity")} |->
    With([h2 \in {r2.h} |->
    With([r3 \in {ConstraintRound(h2, objs, "holes")} |->
    With([h3 \in {r3.h} |->
    LastRound(h3, objs, r1.v \o r2.v \o r3.v)])])])])])])

get_bad_components(h, strict) ==
    With([g \in {get_selected_objects(h)} |->
    IF g.none /\ strict THEN Ret(g.h, "RuntimeError", FALSE, <<>>)
    ELSE With([h1 \in {g.h} |-> BadRounds(h1, g.v)])])

\* ------------------------------------------------- cmds.polyMergeVertex
\* Two vertices of a mesh within the merge distance of each other.
Near(ob, i, j) ==
    /\ \A c \in 1..3 : Abs(ob.verts[i][c] - ob.verts[j][c]) <= MergeTol
    /\ (ob.verts[i][1] - ob.verts[j][1]) * (ob.verts[i][1] - ob.verts[j][1])
       + (ob.verts[i][2] - ob.verts[j][2]) * (ob.verts[i][2] - ob.verts[j][2])
       + (ob.verts[i][3] - ob.verts[j][3]) * (ob.verts[i][3] - ob.verts[j][3])
       <= MergeTol * MergeTol

\* The vertex a selected vertex is merged into: the first selected vertex
\* near it (with alwaysMergeTwoVertices, the first of the two selected).
RECURSIVE MergeInto(_, _, _)
MergeInto(ob, S, j) ==
    IF j \notin S THEN j
    ELSE With([r \in {Min({i \in S : i <= j /\ (Near(ob, i, j) \/ Cardinality(S) = 2)})} |->
         IF r = j THEN j ELSE MergeInto(ob, S, r)])

\* The faces on the edges of es that join the same two vertices as e, from
\* edge k on; to renumbers the vertices.
RECURSIVE FacesOn(_, _, _, _)
FacesOn(es, to, e, k) ==
    IF k > Len(es) THEN 0
    ELSE (IF {to[es[k].a], to[es[k].b]} = {to[e.a], to[e.b]} THEN es[k].nf ELSE 0)
         + FacesOn(es, to, e, k + 1)

\* The edges of a mesh whose vertices are renumbered by to: an edge whose
\* ends are merged goes, edges that come to join the same two vertices
\* become one edge with the faces of both.
MergedEdges(es, to) ==
    With([firsts \in {SortedSeq({i \in 1..Len(es) :
                     /\ to[es[i].a] # to[es[i].b]
                     /\ \A k \in 1..(i - 1) :
                          {to[es[k].a], to[es[k].b]} # {to[es[i].a], to[es[i].b]}})} |->
    [i \in 1..Len(firsts) |->
       Edge(IF to[es[firsts[i]].a] <= to[es[firsts[i]].b]
            THEN to[es[firsts[i]].a] ELSE to[es[firsts[i]].b],
            IF to[es[firsts[i]].a] <= to[es[firsts[i]].b]
            THEN to[es[firsts[i]].b] ELSE to[es[firsts[i]].a],
            FacesOn(es, to, es[firsts[i]], 1))]])

\* The mesh with the vertices S merged, and the new index of every old vertex.
MergeMesh(ob, S) ==
    With([into \in {Table([j \in 1..Len(ob.verts) |-> MergeInto(ob, S, j)])} |->
    With([keep \in {{j \in 1..Len(ob.verts) : into[j] = j}} |->
    With([kept \in {SortedSeq(keep)} |->
    With([to \in {Table([j \in 1..Len(ob.verts) |->
                            Cardinality({k \in keep : k <= into[j]})])} |->
    Table([mesh |-> [ob EXCEPT
                      !.verts = [i \in 1..Len(kept) |-> ob.verts[kept[i]]],
                      !.edges = MergedEdges(ob.edges, to),
                      !.faces = [i \in 1..Len(ob.faces) |->
                                   [ob.faces[i] EXCEPT !.at = to[ob.faces[i].at]]],
                      !.nmv = {to[j] : j \in ob.nmv}],
           to |-> to])])])])])

\* The indices of the vertices of object o among the components.
IndicesOf(vertices, o) == {v.i : v \in {x \in Range(vertices) : x.o = o}}

\* cmds.polyMergeVertex(vertices, distance=0.0001, alwaysMergeTwoVertices=True):
\* the merged vertices stay selected.
HostMergeVertex(h, vertices) ==
    With([objs \in {{v.o : v \in Range(vertices)}} |->
    With([m \in {Table([o \in objs |-> MergeMesh(h.scene[o], IndicesOf(vertices, o))])} |->
    With([left \in {SortedSeq(objs)} |->
    HostDo(h, Cmd("polyMergeVertex", vertices, <<MergeTol>>, ""),
           [o \in DOMAIN h.scene |-> IF o \in objs THEN m[o].mesh ELSE h.scene[o]],
           Flatten([j \in 1..Len(left) |->
                      CompsOf(left[j], "v",
                              {m[left[j]].to[i] : i \in IndicesOf(vertices, left[j])})]))])])])

merge_vertex(h) ==
    With([vertices \in {FilterExpand(get_selected_components(h), "v")} |->
    IF vertices = <<>>
    THEN Ret(HostSay(h, Cmd("error", <<>>, <<>>, "No vertices to merge.")),
             "RuntimeError", FALSE, <<>>)
    ELSE Ret(HostMergeVertex(h, vertices), "none", TRUE, <<>>)])

\* ------------------------------------------------------ cmds.polyUnite
\* Two meshes in one: the second's vertices are numbered after the first's.
Join(A, B) ==
    Object(A.verts \o B.verts,
           A.edges \o [i \in 1..Len(B.edges) |->
                         Edge(B.edges[i].a + Len(A.verts), B.edges[i].b + Len(A.verts),
                              B.edges[i].nf)],
           A.faces \o [i \in 1..Len(B.faces) |->
                         [B.faces[i] EXCEPT !.at = @ + Len(A.verts)]],
           A.nmv \cup {j + Len(A.verts) : j \in B.nmv},
           Origin, Unit, FALSE)

EmptyMesh == Object(<<>>, <<>>, <<>>, {}, Origin, Unit, FALSE)

RECURSIVE JoinAll(_, _, _)
JoinAll(sc, objs, i) ==
    IF i > Len(objs) THEN EmptyMesh
    ELSE With([rest \in {JoinAll(sc, objs, i + 1)} |-> Table(Join(sc[objs[i]], rest))])

\* The scene with the objects objs replaced by one new object.
Replaced(h, c, objs, mesh) ==
    [HostDo(h, c,
            (h.nextId :> mesh) @@ [o \in DOMAIN h.scene \ Range(objs) |-> h.scene[o]],
            <<ObjItem(h.nextId)>>)
       EXCEPT !.nextId = h.nextId + 1]

\* cmds.polyUnite(selected_objects, constructionHistory=False)
HostUnite(h, objs) ==
    Replaced(h, Cmd("polyUnite", ObjItems(objs), <<>>, ""), objs, JoinAll(h.scene, objs, 1))

TooFew_Three(objs) == Len(objs) < 3

\* len(selected_objects) < 2
TooFew(objs) == Len(objs) < 2

combine(h) ==
    With([g \in {get_selected_objects(h)} |->
    With([h1 \in {g.h} |->
    IF g.none THEN Ret(h1, "TypeError", FALSE, <<>>)
    ELSE IF TooFew(g.v)
    THEN Ret(Warn(h1, "Please select at least two objects to combine."),
             "none", TRUE, <<>>)
    ELSE Ret(HostUnite(h1, g.v), "none", TRUE, <<>>)])])

\* ---------------------------------------------------- cmds.polySeparate
\* The vertices joined to S by edges.
RECURSIVE Shell(_, _)
Shell(ob, S) ==
    With([T \in {S \cup {e.b : e \in {x \in Range(ob.edges) : x.a \in S}}
                \cup {e.a : e \in {x \in Range(ob.edges) : x.b \in S}}} |->
    IF T = S THEN S ELSE Shell(ob, T)])

Shells(ob) == {Shell(ob, {v}) : v \in 1..Len(ob.verts)}

\* The new index of vertex j in the piece on the vertices S.
InPiece(S, j) == Cardinality({k \in S : k <= j})

\* The part of a mesh on the vertices S, renumbered.
Piece(ob, S) ==
    With([kept \in {SortedSeq(S)} |->
    With([es \in {SelectSeq(ob.edges, LAMBDA e : e.a \in S)} |->
    With([fs \in {SelectSeq(ob.faces, LAMBDA f : f.at \in S)} |->
    Table(Object([i \in 1..Len(kept) |-> ob.verts[kept[i]]],
                 [i \in 1..Len(es) |->
                    Edge(InPiece(S, es[i].a), InPiece(S, es[i].b), es[i].nf)],
                 [i \in 1..Len(fs) |-> [fs[i] EXCEPT !.at = InPiece(S, @)]],
                 {InPiece(S, j) : j \in ob.nmv \cap S},
                 ob.piv, ob.scl, FALSE))])])])

\* The pieces of one object, as <<object, shell>> pairs in the order of
\* each shell's first vertex.
PiecesOf(sc, o) ==
    With([shells \in {Shells(sc[o])} |->
    With([firsts \in {SortedSeq({Min(S) : S \in shells})} |->
    Table([k \in 1..Len(firsts) |->
             <<o, CHOOSE S \in shells : firsts[k] \in S>>])])])

\* The pieces of the objects from index i on, in the order of the objects.
RECURSIVE PiecesFrom(_, _, _)
PiecesFrom(sc, objs, i) ==
    IF i > Len(objs) THEN <<>>
    ELSE PiecesOf(sc, objs[i]) \o PiecesFrom(sc, objs, i + 1)

\* The scene with the objects multi replaced by the pieces ps, which get
\* new names from nid on.
Separated(sc, multi, ps, nid) ==
    [o \in (DOMAIN sc \ Range(multi)) \cup {nid + k - 1 : k \in 1..Len(ps)} |->
       IF o \in DOMAIN sc THEN sc[o]
       ELSE Piece(sc[ps[o - nid + 1][1]], ps[o - nid + 1][2])]

\* cmds.polySeparate(selected_objects, constructionHistory=False): every
\* object of more than one piece is replaced by its pieces; an object of one
\* piece is left as it is, and a strict host ends the command in an error.
HostSeparate(h, objs, strict) ==
    With([multi \in {SelectSeq(objs, LAMBDA o : Cardinality(Shells(h.scene[o])) > 1)} |->
    IF multi = <<>>
    THEN DispatchOnNone(h, Cmd("polySeparate", ObjItems(objs), <<>>, ""), strict)
    ELSE With([ps \in {PiecesFrom(h.scene, multi, 1)} |->
         Ret([HostDo(h, Cmd("polySeparate", ObjItems(objs), <<>>, ""),
                     Separated(h.scene, multi, ps, h.nextId),
                     [k \in 1..Len(ps) |-> ObjItem(h.nextId + k - 1)])
                EXCEPT !.nextId = h.nextId + Len(ps)],
             IF strict /\ Len(multi) < Len(objs) THEN "RuntimeError" ELSE "none",
             TRUE, <<>>)])])

separate(h, strict) ==
    With([g \in {get_selected_objects(h)} |->
    With([h1 \in {g.h} |-> HostSeparate(h1, g.v, strict)])])

\* ------------------------------------------------------ cmds.polyBoolOp
\* The geometry of a boolean is the host's.  The model keeps what the host
\* gives for operands that do not overlap: both meshes for a union, the
\* first for a difference, nothing for an intersection.
BoolMesh(sc, objs, operation) ==
    CASE operation = OpUnion -> JoinAll(sc, objs, 1)
      [] operation = OpDifference -> [sc[objs[1]] EXCEPT !.hist = FALSE]
      [] operation = OpIntersection -> EmptyMesh

\* cmds.polyBoolOp(selected_objects, operation=n, constructionHistory=False)
polyBoolOp(h, operation, strict) ==
    With([g \in {get_selected_objects(h)} |->
    With([h1 \in {g.h} |->
    IF Len(g.v) < 2
    THEN DispatchOnNone(h1, Cmd("polyBoolOp", ObjItems(g.v), <<operation>>, ""), strict)
    ELSE Ret(Replaced(h1, Cmd("polyBoolOp", ObjItems(g.v), <<operation>>, ""), g.v,
                      BoolMesh(h1.scene, g.v, operation)),
             "none", TRUE, <<>>)])])

union(h, strict) == polyBoolOp(h, OpUnion, strict)

difference(h, strict) == polyBoolOp(h, OpDifference, strict)

intersection(h, strict) == polyBoolOp(h, OpIntersection, strict)

\* -------------------------------------------------- cmds.polyBridgeEdge
\* The mesh with division + 1 rows of faces built between the edges mine,
\* each of which gets one more face.
Bridged(ob, mine, first, division) ==
    [ob EXCEPT
       !.edges = [i \in 1..Len(ob.edges) |->
                    IF i \in mine THEN [ob.edges[i] EXCEPT !.nf = @ + 1]
                    ELSE ob.edges[i]],
       !.faces = @ \o [k \in 1..(division + 1) |-> Quad(ob.edges[first].a)]]

\* cmds.polyBridgeEdge(constructionHistory=False, divisions=division,
\* smoothingAngle=30) on the selected edges.
HostBridge(h, edges, division) ==
    HostDo(h, Cmd("polyBridgeEdge", edges, <<division, SmoothingAngle>>, ""),
           [h.scene EXCEPT ![edges[1].o] =
              Bridged(h.scene[edges[1].o], IndicesOf(edges, edges[1].o),
                      edges[1].i, division)],
           h.sel)

NotEnoughEdges_One(selected_edges) == Len(selected_edges) < 1

\* not selected_edges or len(selected_edges) < 2
NotEnoughEdges(selected_edges) == selected_edges = <<>> \/ Len(selected_edges) < 2

bridge(h, division) ==
    With([selected_edges \in {FilterExpand(get_selected_components(h), "e")} |->
    IF NotEnoughEdges(selected_edges)
    THEN Ret(Warn(h, "Please select at least two edges to bridge."), "none", TRUE, <<>>)
    ELSE Ret(HostBridge(h, selected_edges, division), "none", TRUE, <<>>)])

\* --------------------------------------------------------------- export
export(h) ==
    With([g \in {get_selected_objects(h)} |->
    Ret(HostSay(g.h, Cmd("ExportSelection", <<>>, <<>>, "")), "none", TRUE, <<>>)])

\* ---------------------------------------------------------------- check
check(h, strict) ==
    With([r1 \in {freeze_transform(h, strict)} |-> IF Raised(r1) THEN r1 ELSE
    With([r2 \in {set_pivot(r1.h, 0, 0, 0)} |-> IF Raised(r2) THEN r2 ELSE
    With([r3 \in {delete_history(r2.h, strict)} |-> IF Raised(r3) THEN r3 ELSE
    With([r4 \in {get_bad_components(r3.h, strict)} |-> IF Raised(r4) THEN r4 ELSE
    SelectList(r4.h, r4.v, strict)])])])])

\* ----------------------------------------------------------------- undo
\* for _ in range(n): cmds.undo()
RECURSIVE UndoTimes(_, _)
UndoTimes(h, n) ==
    IF n = 0 THEN h ELSE With([h1 \in {HostUndo(h)} |-> UndoTimes(h1, n - 1)])

undo(h) == Ret(UndoTimes(h, UNDO_COUNT), "none", TRUE, <<>>)

\* ------------------------------------------------------------ duplicate
\* The end of the loop body, from the merged vertices on.
DuplicateEnd(h14, strict) ==
    With([merged_vertices \in {get_selected_components(h14)} |->
    IF merged_vertices = <<>> THEN Ret(h14, "IndexError", FALSE, <<>>) ELSE
    With([h15 \in {Select(h14, ObjItems(<<merged_vertices[1].o>>))} |->
    With([r16 \in {delete_history(h15, strict)} |-> IF Raised(r16) THEN r16 ELSE
    Ret(Select(r16.h, <<>>), "none", TRUE, <<>>)])])])

\* The loop body from the mirrored objects on: combine and merge.
DuplicateJoin(h9, parent_object, mirrored_objects, strict) ==
    With([h10 \in {Select(h9, ObjItems(parent_object \o mirrored_objects))} |->
    With([r11 \in {combine(h10)} |-> IF Raised(r11) THEN r11 ELSE
    With([r12 \in {get_open_edges(r11.h)} |-> IF Raised(r12) THEN r12 ELSE
    With([new_vertices \in {EdgesToVertices(r12.h.scene, r12.v)} |->
    With([r13 \in {SelectList(r12.h, new_vertices, strict)} |-> IF Raised(r13) THEN r13 ELSE
    With([r14 \in {merge_vertex(r13.h)} |-> IF Raised(r14) THEN r14 ELSE
    DuplicateEnd(r14.h, strict)])])])])])])

\* The loop body from the parent object on: freeze, pivot, mirror.
DuplicateMirror(h5, parent_object, vtx_coordinate, axis, strict) ==
    With([h6 \in {Select(h5, ObjItems(parent_object))} |->
    With([r7 \in {freeze_transform(h6, strict)} |-> IF Raised(r7) THEN r7 ELSE
    With([r8 \in {set_pivot(r7.h, vtx_coordinate[1], vtx_coordinate[2], vtx_coordinate[3])} |->
    IF Raised(r8) THEN r8 ELSE
    With([r9 \in {mirror_object(r8.h, axis)} |-> IF Raised(r9) THEN r9 ELSE
    DuplicateJoin(r9.h, parent_object, r9.v, strict)])])])])

\* The body of duplicate's loop for one object.  With no open edge,
\* closest_vertex is None: pointPosition has no point to read and
\* scale_vertices finds no edges; open_edges[0] then fails.
DuplicateOne(h, obj, axis, strict) ==
    With([h1 \in {Select(h, <<ObjItem(obj)>>)} |->
    With([r2 \in {get_open_edges(h1)} |-> IF Raised(r2) THEN r2 ELSE
    With([r3 \in {SelectList(r2.h, r2.v, strict)} |-> IF Raised(r3) THEN r3 ELSE
    With([r4 \in {get_vertex_closest_to_axis(r3.h, axis, strict)} |->
    IF Raised(r4) THEN r4 ELSE
    IF r4.none
    THEN With([r5 \in {scale_vertices(r4.h, axis, Origin)} |->
         IF Raised(r5) THEN r5 ELSE Ret(r5.h, "IndexError", FALSE, <<>>)])
    ELSE With([vtx_coordinate \in {PointPosition(r4.h.scene, r4.v[1])} |->
         With([r5 \in {scale_vertices(r4.h, axis, vtx_coordinate)} |->
         IF Raised(r5) THEN r5 ELSE
         DuplicateMirror(r5.h, <<r2.v[1].o>>, vtx_coordinate, axis, strict)])])])])])])

\* The loop of duplicate, from object i on.
RECURSIVE DuplicateEach(_, _, _, _, _)
DuplicateEach(h, objs, i, axis, strict) ==
    IF i > Len(objs) THEN Ret(h, "none", TRUE, <<>>)
    ELSE With([r \in {DuplicateOne(h, objs[i], axis, strict)} |->
         IF Raised(r) THEN r ELSE DuplicateEach(r.h, objs, i + 1, axis, strict)])

duplicate(h, axis, strict) ==
    With([g \in {get_selected_objects(h)} |->
    IF g.none THEN Ret(g.h, "TypeError", FALSE, <<>>)
    ELSE With([h1 \in {g.h} |-> DuplicateEach(h1, g.v, 1, axis, strict)])])

\* ------------------------------------------------------------ installer
\* The files install_meshmaven_tool writes, in the order it copies them:
\* two into the user scripts directory, one into the user shelf directory.
InstallFiles == <<"scripts/meshmaven_gui.py", "scripts/meshmaven_core.py",
                  "shelf/shelf_MeshMaven.mel">>

Confirmed_Always(result) == TRUE

\* not (result != 'Continue')
Confirmed(result) == result = "Continue"

\* The try block: copy_with_overwrite of the files from index i on.  failAt
\* is the copy that fails (0: none), in os.remove or in shutil.copy.
RECURSIVE CopyFrom(_, _, _, _, _)
CopyFrom(files, events, i, failAt, stage) ==
    IF i > Len(InstallFiles) THEN [fs |-> files, ev |-> events, ok |-> TRUE]
    ELSE LET f == InstallFiles[i]
             exists == files[f] # "absent"
             removed == IF exists THEN [files EXCEPT ![f] = "absent"] ELSE files
             ev1 == IF exists THEN Append(events, "remove") ELSE events
         IN IF failAt = i /\ stage = "remove" /\ exists
            THEN [fs |-> files, ev |-> Append(events, "warning"), ok |-> FALSE]
            ELSE IF failAt = i
            THEN [fs |-> removed, ev |-> Append(ev1, "warning"), ok |-> FALSE]
            ELSE CopyFrom([removed EXCEPT ![f] = "fresh"], Append(ev1, "copy"),
                          i + 1, failAt, stage)

\* install_meshmaven_tool: what it leaves of the files, the __pycache__
\* directory and the shelf, and what it did.
install_meshmaven_tool(files, cache, loaded, result, failAt, stage) ==
    LET c == CopyFrom(files, <<"confirmDialog">>, 1, failAt, stage) IN
    IF ~Confirmed(result)
    THEN [fs |-> files, pycache |-> cache, shelf |-> loaded, ev |-> <<"confirmDialog">>]
    ELSE IF ~c.ok
    THEN [fs |-> c.fs, pycache |-> cache, shelf |-> loaded, ev |-> c.ev]
    ELSE [fs |-> c.fs, pycache |-> FALSE, shelf |-> TRUE,
          ev |-> c.ev \o <<"source", "shelf_MeshMaven", "installedDialog">>
                 \o (IF cache THEN <<"rmtree">> ELSE <<>>)]

\* ---------------------------------------------------------------- state
VARIABLES
    scene,      \* the host scene: object name -> object
    sel,        \* the host selection list
    undoq,      \* the host undo queue: the states its commands replaced
    nextId,     \* the name the host gives the next new object
    log,        \* the host commands of the handler that ran last
    raised,     \* the exception that ended it, or "none"
    ret,        \* what it returned: [none, v]
    pre,        \* scene and selection when it was called
    prepre,     \* scene and selection when the interaction before it began
    hist,       \* the interactions so far: [op, arg, raised]
    checked,    \* Ui: the axis checkbox that is checked
    div_field,  \* Ui: the value of the division spin box
    fs,         \* installer: the state of each installed file
    pycache,    \* installer: whether scripts/__pycache__ exists
    shelf,      \* installer: whether the MeshMaven shelf is loaded
    ilog,       \* installer: what the last run did
    irun        \* installer: the runs so far: [result, failAt, before]

hostVars == <<scene, sel, undoq, nextId, log, raised, ret, pre, prepre, hist>>
guiVars == <<checked, div_field>>
installVars == <<fs, pycache, shelf, ilog, irun>>
vars == <<hostVars, guiVars, installVars>>

\* ------------------------------------------------------- initial scenes
\* Half of a model, open along its border: two triangles.
HalfMesh ==
    Object(<<P(1, 2, 3), P(2, 1, 3), P(3, 3, 1), P(2, 2, 2)>>,
           <<Edge(1, 2, 1), Edge(2, 3, 1), Edge(3, 4, 1), Edge(1, 4, 1), Edge(2, 4, 2)>>,
           <<Tri(1), Tri(2)>>, {}, P(1, 1, 1), <<2, 1, 1>>, TRUE)

\* A closed mesh: a tetrahedron.
SolidMesh ==
    Object(<<P(0, 0, 0), P(1, 0, 0), P(0, 1, 0), P(0, 0, 1)>>,
           <<Edge(1, 2, 2), Edge(1, 3, 2), Edge(1, 4, 2),
             Edge(2, 3, 2), Edge(2, 4, 2), Edge(3, 4, 2)>>,
           <<Tri(1), Tri(1), Tri(1), Tri(2)>>, {}, Origin, Unit, FALSE)

\* A mesh in need of cleanup: faces of 3, 4 and 5 sides, each convex or
\* concave, with or without holes; a non-manifold edge and vertices; and a
\* second piece.
JunkMesh ==
    Object(<<P(0, 0, 0), P(1, 0, 0), P(1, 1, 0), P(-1, 0, 1), P(5, 5, 5), P(6, 5, 5)>>,
           <<Edge(1, 2, 1), Edge(2, 3, 3), Edge(1, 3, 1), Edge(3, 4, 1), Edge(5, 6, 1)>>,
           [k \in 1..12 |->
              Face(1, 3 + ((k - 1) % 3), ((k - 1) \div 3) % 2 = 1, (k - 1) \div 6 = 1)],
           {2, 3}, P(0, 1, 0), Unit, TRUE)

Catalogue == {HalfMesh, SolidMesh, JunkMesh}

\* ------------------------------------------------------ what a user does
\* The selections a user makes: objects in some order, or the first edges
\* of an object.
ObjSelections(sc) == {ObjItems(s) : s \in DistinctSeqs(DOMAIN sc, MaxSel)}

EdgeSelections(sc) ==
    UNION {{AllComps(o, "e", k) :
              k \in {n \in 1..MaxSelEdges : n <= Len(sc[o].edges)}} : o \in DOMAIN sc}

Here == [scene |-> scene, sel |-> sel]

H0 == Host(scene, sel, undoq, <<>>, nextId)

\* One interaction: the host is left as the handler left it, also when an
\* exception ended the handler.
Ran(op, arg, r0, max) ==
    /\ Len(hist) < max
    /\ \E r \in {r0} :
          /\ scene' = r.h.scene
          /\ sel' = r.h.sel
          /\ undoq' = r.h.undoq
          /\ nextId' = r.h.nextId
          /\ log' = r.h.log
          /\ raised' = r.raised
          /\ ret' = [none |-> r.none, v |-> r.v]
          /\ pre' = Here
          /\ prepre' = pre
          /\ hist' = Append(hist, [op |-> op, arg |-> arg, raised |-> r.raised])
          /\ UNCHANGED <<guiVars, installVars>>

\* The user changes the selection in the host.
UserSelect(max) ==
    \E s \in ObjSelections(scene) \cup EdgeSelections(scene) :
        /\ s # sel
        /\ Ran("select", "", Ret([Select(H0, s) EXCEPT !.log = <<>>], "none", TRUE, <<>>), max)


\* An interaction with the panel's own widgets: the host is not involved.
Touched(op, arg, max) ==
    /\ Len(hist) < max
    /\ hist' = Append(hist, [op |-> op, arg |-> arg, raised |-> "none"])
    /\ log' = <<>>
    /\ raised' = "none"
    /\ ret' = [none |-> TRUE, v |-> <<>>]
    /\ pre' = Here
    /\ prepre' = pre
    /\ UNCHANGED <<scene, sel, undoq, nextId, installVars>>

\* The axis checkboxes are an exclusive group: checking one unchecks the rest.
SetAxis(max) ==
    \E a \in Axes \ {checked} :
        /\ checked' = a
        /\ UNCHANGED div_field
        /\ Touched("axis", a, max)

\* QSpinBox keeps its value in its range.
Clamp(v) == IF v < DivMin THEN DivMin ELSE IF v > DivMax THEN DivMax ELSE v

\* What a user types into the spin box.
DivInputs == {DivMin - 1, DivMin, 3, DivMax, DivMax + 1}

SetDiv(max) ==
    \E v \in DivInputs :
        /\ Clamp(v) # div_field
        /\ div_field' = Clamp(v)
        /\ UNCHANGED checked
        /\ Touched("division", "", max)

\* ---------------------------------------------- the panel's buttons
\* Ui.connections: each button runs its method of MeshMavenCore.
ClickMergeVertex(max) == Ran("merge_vertex", "", merge_vertex(H0), max)

ClickCombine(max) == Ran("combine", "", combine(H0), max)

ClickSeparate(max) ==
    \E strict \in BOOLEAN : Ran("separate", "", separate(H0, strict), max)

\* Ui.call_duplicate
ClickDuplicate(max) ==
    \E strict \in BOOLEAN : Ran("duplicate", checked, duplicate(H0, checked, strict), max)

ClickUndo(max) == Ran("undo", "", undo(H0), max)

\* Ui.call_bridge
ClickBridge(max) == Ran("bridge", "", bridge(H0, div_field), max)

ClickUnion(max) == \E strict \in BOOLEAN : Ran("union", "", union(H0, strict), max)

ClickDifference(max) ==
    \E strict \in BOOLEAN : Ran("difference", "", difference(H0, strict), max)

ClickIntersection(max) ==
    \E strict \in BOOLEAN : Ran("intersection", "", intersection(H0, strict), max)

ClickCheck(max) == \E strict \in BOOLEAN : Ran("check", "", check(H0, strict), max)

ClickExport(max) == Ran("export", "", export(H0), max)

\* ------------------------------- the methods no button runs directly
CallGetOpenEdges(max) == Ran("get_open_edges", "", get_open_edges(H0), max)

CallClosest(max) ==
    \E axis \in Axes, strict \in BOOLEAN :
        Ran("get_vertex_closest_to_axis", axis,
            get_vertex_closest_to_axis(H0, axis, strict), max)

CallFreezeTransform(max) ==
    \E strict \in BOOLEAN : Ran("freeze_transform", "", freeze_transform(H0, strict), max)

CallDeleteHistory(max) ==
    \E strict \in BOOLEAN : Ran("delete_history", "", delete_history(H0, strict), max)

CallSetPivot(max) == Ran("set_pivot", "", set_pivot(H0, 0, 0, 0), max)

CallMirrorObject(max) ==
    \E axis \in Axes : Ran("mirror_object", axis, mirror_object(H0, axis), max)

\* The installer, dropped into the viewport: onMayaDroppedPythonFile.
Install ==
    \E result \in {"Continue", "Cancel"}, failAt \in 0..Len(InstallFiles),
       stage \in {"remove", "copy"} :
        LET r == install_meshmaven_tool(fs, pycache, shelf, result, failAt, stage) IN
        /\ Len(irun) < MaxInstalls
        /\ fs' = r.fs
        /\ pycache' = r.pycache
        /\ shelf' = r.shelf
        /\ ilog' = r.ev
        /\ irun' = Append(irun, [result |-> result, failAt |-> failAt,
                                 before |-> [fs |-> fs, pycache |-> pycache, shelf |-> shelf]])
        /\ UNCHANGED <<hostVars, guiVars>>

\* ------------------------------------------------------- specifications
InstallIdle ==
    /\ fs = [f \in Range(InstallFiles) |-> "absent"]
    /\ pycache = FALSE
    /\ shelf = FALSE
    /\ ilog = <<>>
    /\ irun = <<>>

HostStart(sc, sl) ==
    /\ scene = sc
    /\ sel = sl
    /\ undoq = <<>>
    /\ nextId = NObj + 1
    /\ log = <<>>
    /\ raised = "none"
    /\ ret = [none |-> TRUE, v |-> <<>>]
    /\ pre = [scene |-> sc, sel |-> sl]
    /\ prepre = [scene |-> sc, sel |-> sl]
    /\ hist = <<>>

\* Ui.widgets: X is checked, the spin box shows 0.
GuiStart ==
    /\ checked = "X"
    /\ div_field = 0

\* Spec: the panel over a scene of catalogue meshes, every method.
Init ==
    /\ \E sc \in [1..NObj -> Catalogue] : HostStart(sc, <<>>)
    /\ GuiStart
    /\ InstallIdle

Next ==
    \/ UserSelect(MaxOps)
    \/ SetAxis(MaxOps)
    \/ SetDiv(MaxOps)
    \/ ClickMergeVertex(MaxOps)
    \/ ClickCombine(MaxOps)
    \/ ClickSeparate(MaxOps)
    \/ ClickDuplicate(MaxOps)
    \/ ClickUndo(MaxOps)
    \/ ClickBridge(MaxOps)
    \/ ClickUnion(MaxOps)
    \/ ClickDifference(MaxOps)
    \/ ClickIntersection(MaxOps)
    \/ ClickCheck(MaxOps)
    \/ ClickExport(MaxOps)
    \/ CallGetOpenEdges(MaxOps)
    \/ CallClosest(MaxOps)
    \/ CallFreezeTransform(MaxOps)
    \/ CallDeleteHistory(MaxOps)
    \/ CallSetPivot(MaxOps)
    \/ CallMirrorObject(MaxOps)

Spec == Init /\ [][Next]_vars

\* SpecDup: Duplicate, Undo Duplicate and Combine, one interaction deeper.
NextDup ==
    \/ UserSelect(DupOps)
    \/ SetAxis(DupOps)
    \/ ClickDuplicate(DupOps)
    \/ ClickUndo(DupOps)
    \/ ClickCombine(DupOps)

SpecDup == Init /\ [][NextDup]_vars

\* SpecBridge: the spin box and Bridge.
NextBridge ==
    \/ UserSelect(BridgeOps)
    \/ SetDiv(BridgeOps)
    \/ ClickBridge(BridgeOps)

SpecBridge == Init /\ [][NextBridge]_vars

\* SpecGeom: get_open_edges and get_vertex_closest_to_axis on every small
\* mesh.  A mesh here is a chain of vertices, edge i joining vertices i and
\* i + 1.
Coords == {-1, 0, 1}

Positions == {P(x, y, z) : x \in Coords, y \in Coords, z \in Coords}

ChainMesh(vs, nfs) ==
    Object(vs, [i \in 1..Len(nfs) |-> Edge(i, i + 1, nfs[i])], <<>>, {}, Origin, Unit, FALSE)

\* One object, its vertices anywhere, its edges open.
VertexScenes ==
    {[o \in {1} |-> ChainMesh(vs, [i \in 1..(Len(vs) - 1) |-> 1])] :
       vs \in SeqsUpTo(Positions, MaxVerts) \ {<<>>}}

\* Two objects, every edge on one, two or three faces.
EdgeScenes ==
    {[o \in {1, 2} |->
        ChainMesh([i \in 1..(Len(nfs[o]) + 1) |-> P(i, o, 0)], nfs[o])] :
       nfs \in [{1, 2} -> SeqsUpTo(1..3, MaxEdges)]}

\* Any edges of the objects, in index order.
AnyEdgeSelections(sc) ==
    {Flatten([j \in 1..Len(SortedSeq(DOMAIN sc)) |->
                SelectSeq(AllComps(j, "e", Len(sc[j].edges)), LAMBDA e : e \in E)]) :
       E \in SUBSET (UNION {Range(AllComps(o, "e", Len(sc[o].edges))) : o \in DOMAIN sc})}

InitGeom ==
    /\ \E sc \in VertexScenes \cup EdgeScenes :
         \E sl \in ObjSelections(sc) \cup AnyEdgeSelections(sc) : HostStart(sc, sl)
    /\ GuiStart
    /\ InstallIdle

NextGeom ==
    \/ CallGetOpenEdges(GeomOps)
    \/ CallClosest(GeomOps)

SpecGeom == InitGeom /\ [][NextGeom]_vars

\* SpecInstall: the installer over every state of the user directories.
InitInstall ==
    /\ HostStart([o \in 1..NObj |-> HalfMesh], <<>>)
    /\ GuiStart
    /\ fs \in [Range(InstallFiles) -> {"absent", "stale", "fresh"}]
    /\ pycache \in BOOLEAN
    /\ shelf \in BOOLEAN
    /\ ilog = <<>>
    /\ irun = <<>>

NextInstall == Install

SpecInstall == InitInstall /\ [][NextInstall]_vars

\* --------------------------------------------------------------- claims
\* The interaction that ran last.
Last == hist[Len(hist)]

\* The method op ran last; it ran last and returned.
Did(op) == hist # <<>> /\ Last.op = op
Returned(op) == Did(op) /\ raised = "none"

\* The objects of a selection list, in its order.
ObjectsIn(sl) == SelectSeq(sl, LAMBDA it : it.k = "obj")

\* The names of the host commands the last handler dispatched, in order.
LogNames == [i \in 1..Len(log) |-> log[i].cmd]

\* C4: get_open_edges returns exactly the open edges of the first selected
\* object: an edge of that object is in the result if and only if it is on
\* exactly one face, every edge of the result is an edge of that object, and
\* no edge is in the result twice.
C4_OpenEdgesOfFirst ==
    Returned("get_open_edges") =>
        LET first == ObjectsIn(pre.sel)[1].o
            es == pre.scene[first].edges
        IN /\ \A i \in 1..Len(es) :
                (Comp(first, "e", i) \in Range(ret.v)) <=> (es[i].nf = 1)
           /\ \A c \in Range(ret.v) : c.k = "e" /\ c.o = first /\ c.i \in 1..Len(es)
           /\ \A i, j \in 1..Len(ret.v) : ret.v[i] = ret.v[j] => i = j

\* get_open_edges returned some but not all edges of the first of two
\* selected objects, the other object having open edges too.
C4_Witness ==
    /\ Returned("get_open_edges")
    /\ Len(ObjectsIn(pre.sel)) = 2
    /\ ObjectsIn(pre.sel)[1].o = 2
    /\ ret.v # <<>>
    /\ \E e \in Range(pre.scene[2].edges) : e.nf = 3
    /\ \E e \in Range(pre.scene[1].edges) : e.nf = 1

\* The measure get_vertex_closest_to_axis minimises for an axis.
Measure(sc, axis, v) == Abs(sc[v.o].verts[v.i][MirrorPlane(axis) + 1])

C7_WitnessNone ==
    /\ Returned("get_vertex_closest_to_axis")
    /\ ret.none
    /\ FilterExpand(pre.sel, "e") = <<>>

\* The installer run that ran last.
LastRun == irun[Len(irun)]

\* C5: the installer copies files and registers the shelf only after
\* confirmation.  When the dialog returns anything but 'Continue', no file
\* is removed or copied, no shelf script is sourced and no success dialog
\* is shown; when it returns 'Continue' and every copy succeeds, the two
\* scripts are in the user scripts directory, the shelf file is in the user
\* shelf directory and the shelf is registered.
C5_InstallOnlyAfterContinue ==
    irun # <<>> =>
        /\ LastRun.result # "Continue" =>
             /\ fs = LastRun.before.fs
             /\ pycache = LastRun.before.pycache
             /\ shelf = LastRun.before.shelf
             /\ Range(ilog) \cap {"remove", "copy", "source", "shelf_MeshMaven",
                                  "installedDialog", "rmtree"} = {}
        /\ (LastRun.result = "Continue" /\ LastRun.failAt = 0) =>
             /\ fs["scripts/meshmaven_gui.py"] = "fresh"
             /\ fs["scripts/meshmaven_core.py"] = "fresh"
             /\ fs["shelf/shelf_MeshMaven.mel"] = "fresh"
             /\ shelf
             /\ "source" \in Range(ilog)
             /\ "shelf_MeshMaven" \in Range(ilog)

\* A cancelled run left stale and missing files as they were, and the
\* confirmed run after it installed all three and registered the shelf.
C5_Witness ==
    /\ Len(irun) = 2
    /\ irun[1].result = "Cancel"
    /\ irun[2].result = "Continue"
    /\ irun[2].failAt = 0
    /\ irun[1].before = irun[2].before
    /\ irun[2].before.fs["scripts/meshmaven_gui.py"] = "stale"
    /\ irun[2].before.fs["shelf/shelf_MeshMaven.mel"] = "absent"
    /\ ~irun[2].before.shelf
    /\ shelf
    /\ \A f \in Range(InstallFiles) : fs[f] = "fresh"

\* C9: bridge dispatches the host bridge command only when at least two
\* edges are selected, with the value of the spin box, an integer in
\* 0..1000, as divisions and 30 as smoothing angle; with fewer edges it
\* warns, dispatches no bridge command and leaves the scene as it was.
C9_BridgeNeedsTwoEdges ==
    /\ div_field \in 0..1000
    /\ Did("bridge") =>
         IF Len(FilterExpand(pre.sel, "e")) >= 2
         THEN /\ LogNames = <<"polyBridgeEdge">>
              /\ log[1].num = <<div_field, 30>>
         ELSE /\ log = <<Cmd("warning", <<>>, <<>>,
                             "Please select at least two edges to bridge.")>>
              /\ raised = "none"
              /\ scene = pre.scene
              /\ sel = pre.sel

\* Two edges bridged with the spin box at the top of its range.
C9_Witness ==
    /\ Did("bridge")
    /\ Len(FilterExpand(pre.sel, "e")) = 2
    /\ div_field = 1000
    /\ LogNames = <<"polyBridgeEdge">>
    /\ scene # pre.scene

\* One edge selected: a warning and no bridge.
C9_WitnessOneEdge ==
    /\ Did("bridge")
    /\ Len(FilterExpand(pre.sel, "e")) = 1
    /\ LogNames = <<"warning">>

\* How many commands named c the last handler dispatched.
Count(c) == Cardinality({i \in 1..Len(log) : log[i].cmd = c})

\* C10: combine dispatches the host unite command on the selected objects
\* if and only if at least two objects are selected; with one object it
\* warns 'Please select at least two objects to combine.' and leaves the
\* scene as it was.  Inside duplicate the combine step has the original and
\* its mirrored copy selected and unites them: every mirrored copy is
\* followed by the selection of two objects and their unite.
C10_CombineNeedsTwoObjects ==
    /\ Did("combine") =>
         /\ ("polyUnite" \in Range(LogNames)) <=> (Len(ObjectsIn(pre.sel)) >= 2)
         /\ Len(ObjectsIn(pre.sel)) >= 2 =>
              log = <<Cmd("polyUnite", ObjectsIn(pre.sel), <<>>, "")>>
         /\ Len(ObjectsIn(pre.sel)) = 1 =>
              /\ log = <<Cmd("warning", <<>>, <<>>,
                             "Please select at least two objects to combine.")>>
              /\ raised = "none"
              /\ scene = pre.scene
              /\ sel = pre.sel
    /\ Did("duplicate") =>
         \A i \in 1..Len(log) :
             /\ log[i].msg # "Please select at least two objects to combine."
             /\ log[i].cmd = "setAttr" =>
                  /\ i + 2 <= Len(log)
                  /\ log[i + 1].cmd = "select"
                  /\ Len(log[i + 1].tgt) = 2
                  /\ log[i + 1].tgt[2] = log[i].tgt[1]
                  /\ log[i + 2] = Cmd("polyUnite", log[i + 1].tgt, <<>>, "")

\* Combine united two selected objects.
C10_Witness ==
    /\ Did("combine")
    /\ Len(ObjectsIn(pre.sel)) = 2
    /\ Count("polyUnite") = 1
    /\ Cardinality(DOMAIN scene) = Cardinality(DOMAIN pre.scene) - 1

\* Combine warned on one selected object.
C10_WitnessOne ==
    /\ Did("combine")
    /\ Len(ObjectsIn(pre.sel)) = 1
    /\ LogNames = <<"warning">>

\* Duplicate ran to its end on two objects and united twice.
C10_WitnessDuplicate ==
    /\ Returned("duplicate")
    /\ Len(ObjectsIn(pre.sel)) = 2
    /\ Count("setAttr") = 2
    /\ Count("polyUnite") = 2

\* The bad components of the objects: their faces with more than 4 sides,
\* their concave faces, their faces with holes, their non-manifold vertices.
BadComponents(sc, objs) ==
    UNION {{Comp(o, "f", i) : i \in {j \in 1..Len(sc[o].faces) :
                                       \/ sc[o].faces[j].sides > 4
                                       \/ sc[o].faces[j].concave
                                       \/ sc[o].faces[j].holes}}
           \cup {Comp(o, "v", i) : i \in sc[o].nmv} : o \in objs}

\* C6: check on a selection of objects freezes their transforms, then sets
\* their pivots to the origin, then deletes their construction history,
\* dispatches nothing else that changes the scene, and at its end selects
\* exactly the bad components of the objects that were selected.
C6_CheckSelectsBadComponents ==
    (Did("check") /\ ObjectsIn(pre.sel) # <<>>) =>
        LET objs == ObjectsIn(pre.sel)
            n == Len(objs)
            names == {it.o : it \in Range(objs)}
        IN /\ raised = "none"
           /\ Len(log) >= n + 3
           /\ log[1] = Cmd("makeIdentity", objs, <<>>, "")
           /\ \A k \in 1..n : log[1 + k] = Cmd("move", <<objs[k]>>, Origin, "")
           /\ log[n + 2] = Cmd("delete", objs, <<>>, "constructionHistory")
           /\ \A k \in (n + 3)..Len(log) : log[k].cmd \in {"select", "polySelectConstraint"}
           /\ log[Len(log)].cmd = "select"
           /\ Range(log[Len(log)].tgt) = BadComponents(pre.scene, names)
           /\ Range(sel) = BadComponents(pre.scene, names)
           /\ \A i, j \in 1..Len(sel) : sel[i] = sel[j] => i = j
           /\ DOMAIN scene = DOMAIN pre.scene
           /\ \A o \in DOMAIN scene :
                scene[o] = IF o \in names
                           THEN [pre.scene[o] EXCEPT !.scl = Unit, !.piv = Origin,
                                                     !.hist = FALSE]
                           ELSE pre.scene[o]

\* The host commands of one object's pass through duplicate's pipeline that
\* change the scene: scale-collapse, freeze, re-pivot, duplicate and mirror,
\* combine, merge, delete history.
Pipeline ==
    <<"scale", "makeIdentity", "move", "duplicate", "setAttr", "polyUnite",
      "polyMergeVertex", "delete">>

\* The commands of the last handler other than selections and warnings.
Steps == SelectSeq(LogNames, LAMBDA c : c \notin {"select", "warning"})

\* C1: for every object selected when duplicate is called, duplicate runs
\* the pipeline once: the scene-changing commands it dispatches are the
\* pipeline's, in its order, once per selected object, and it ends by
\* clearing the selection.
C1_PipelineOncePerObject ==
    (Did("duplicate") /\ ObjectsIn(pre.sel) # <<>>) =>
        /\ Len(Steps) = Len(Pipeline) * Len(ObjectsIn(pre.sel))
        /\ \A i \in 1..Len(Steps) : Steps[i] = Pipeline[((i - 1) % Len(Pipeline)) + 1]
        /\ log[Len(log)] = Cmd("select", <<>>, <<>>, "")
        /\ sel = <<>>

\* The host commands that change the scene.
SceneCommands ==
    {"makeIdentity", "move", "delete", "duplicate", "setAttr", "scale", "polyUnite",
     "polySeparate", "polyBoolOp", "polyMergeVertex", "polyBridgeEdge"}

\* The operations that read the object selection.
SelectionReaders ==
    {"duplicate", "combine", "separate", "union", "difference", "intersection",
     "check", "export", "freeze_transform", "delete_history", "set_pivot",
     "mirror_object", "get_open_edges"}

\* C2: with no object selected, every operation that reads the object
\* selection warns 'Please select an object.', returns without raising and
\* dispatches no host command that changes the scene.
C2_EmptySelectionChecked ==
    (hist # <<>> /\ Last.op \in SelectionReaders /\ ObjectsIn(pre.sel) = <<>>) =>
        /\ raised = "none"
        /\ \E i \in 1..Len(log) : log[i] = Cmd("warning", <<>>, <<>>, "Please select an object.")
        /\ \A i \in 1..Len(log) : log[i].cmd \notin SceneCommands
        /\ scene = pre.scene

\* C3: undo after a duplicate that ran to its end leaves the scene and the
\* selection as they were when duplicate was called.
C3_UndoRestoresScene ==
    (/\ Len(hist) >= 2
     /\ Last.op = "undo"
     /\ hist[Len(hist) - 1].op = "duplicate"
     /\ hist[Len(hist) - 1].raised = "none") =>
        /\ scene = prepre.scene
        /\ sel = prepre.sel

\* The component (0, 1, 2) a scale command collapses: the one whose factor
\* is 1e-05.
Collapsed(c) == (CHOOSE k \in 1..3 : c.num[k] = ScaleDen) - 1

\* C8: in a duplicate run the three steps that depend on the axis act on
\* the same component: the one get_vertex_closest_to_axis minimises is the
\* one scale_vertices collapses and the one set_scale_attr negates.
C8_AxisStepsAgree ==
    Did("duplicate") =>
        \A i \in 1..Len(log) :
            /\ log[i].cmd = "scale" => Collapsed(log[i]) = MirrorPlane(Last.arg)
            /\ log[i].cmd = "setAttr" => log[i].num[1] = MirrorPlane(Last.arg)

=============================================================================
